---- MODULE Spec2Model ----
(***************************************************************************)
(* A model of datacard_producer/datacard_builder.py: the Shape name        *)
(* parser, the shape-name template of extract_shapes, the DatacardBuilder  *)
(* constructor and the DatacardBuilder operations on the CombineHarvester  *)
(* instance it owns.                                                       *)
(*                                                                         *)
(* Strings are sequences of one-character strings ("mt" is <<"m","t">>),   *)
(* so that splitting, joining and template filling are computed character  *)
(* by character.  A template additionally holds the placeholders "$BIN",   *)
(* "$PROCESS", "$MASS" and "$SYSTEMATIC" as single elements.               *)
(***************************************************************************)
EXTENDS Integers, Sequences, FiniteSets, TLC

VARIABLES
    \* ---- Shape and the name template
    tArgs,            \* the eight values a name is filled from (template runs)
    sFields,          \* the fields a name was joined from (parser runs)
    sName,            \* Shape._name
    sProps,           \* Shape._properties
    sState,           \* "args" | "named" | "built" | "raised"
    sGot,             \* the last accessor call and what it returned
    \* ---- DatacardBuilder
    fileExists,       \* os.path.exists(input_filename)
    fileKeys,         \* the names of the keys of the input file, in order
    bState,           \* "new" | "built" | "failed"
    shapes,           \* DatacardBuilder._shapes
    shapes_extracted, \* DatacardBuilder._shapes_extracted
    obs,              \* CombineHarvester: the observation entries
    procs,            \* CombineHarvester: the process entries
    systs,            \* CombineHarvester: the systematic entries
    groups,           \* CombineHarvester: the nuisance groups that were set
    last,             \* the last operation called, its arguments and outcome
    extractCompleted  \* history: some extract_shapes call has returned

shapeVars == <<tArgs, sFields, sName, sProps, sState, sGot>>
builderVars == <<fileExists, fileKeys, bState, shapes, shapes_extracted,
                 obs, procs, systs, groups, last, extractCompleted>>
vars == <<tArgs, sFields, sName, sProps, sState, sGot,
          fileExists, fileKeys, bState, shapes, shapes_extracted,
          obs, procs, systs, groups, last, extractCompleted>>

----------------------------------------------------------------------------
(* Bounds *)

\* the longest field value of a generated name, in characters
MaxFieldLen == 1

----------------------------------------------------------------------------
(* Strings *)

Hash == "#"

Nominal == <<"N", "o", "m", "i", "n", "a", "l">>

RECURSIVE Repeat(_, _)
Repeat(c, n) == IF n = 0 THEN <<>> ELSE <<c>> \o Repeat(c, n - 1)

RECURSIVE SplitFrom(_, _, _, _)
\* str.split('#'): scan s from position i; cur is the field being read and
\* acc the fields already closed.  "".split('#') is [""].
SplitFrom(s, i, cur, acc) ==
    IF i > Len(s) THEN Append(acc, cur)
    ELSE IF s[i] = Hash THEN SplitFrom(s, i + 1, <<>>, Append(acc, cur))
    ELSE SplitFrom(s, i + 1, Append(cur, s[i]), acc)

Split(s) == SplitFrom(s, 1, <<>>, <<>>)

RECURSIVE Join(_)
\* '#'.join(fields)
Join(fields) ==
    IF Len(fields) = 0 THEN <<>>
    ELSE IF Len(fields) = 1 THEN fields[1]
    ELSE fields[1] \o <<Hash>> \o Join(Tail(fields))

NonEmpty(p) == p # <<>>

----------------------------------------------------------------------------
(* class Shape *)

\* the property names of Shape._legend, in the order of their indices
PropNames == <<"channel", "category", "process", "analysis", "era",
               "variable", "mass", "variation">>

NumProps == Len(PropNames)

\* Shape._legend[name], counted from 1 as TLA+ sequences are
Legend(pname) == CHOOSE i \in 1..NumProps : PropNames[i] = pname

\* Shape.__init__ raises IndexError on name[-1] when the name is empty
ShapeRaises(name) == Len(name) = 0

ShapeProperties_KeepEmpty(name) ==
    LET p == Split(name)
    IN  IF name[Len(name)] = Hash THEN Append(p, Nominal) ELSE p

\* Shape._properties as Shape.__init__ builds it, for a non-empty name
ShapeProperties(name) ==
    LET p == SelectSeq(Split(name), NonEmpty)
    IN  IF name[Len(name)] = Hash THEN Append(p, Nominal) ELSE p

NoResult == [prop |-> "none", raised |-> FALSE, val |-> <<>>]

\* Shape.get_property(name) and the eight accessors: _properties[_legend[name]],
\* an IndexError when the list is too short
PropertyOf(props, pname) ==
    IF Legend(pname) <= Len(props)
    THEN [prop |-> pname, raised |-> FALSE, val |-> props[Legend(pname)]]
    ELSE [prop |-> pname, raised |-> TRUE, val |-> <<>>]

----------------------------------------------------------------------------
(* The shape-name template of extract_shapes *)

\* str.format of an argument that is a plain string or a list of strings:
\* the string itself, or the list's repr, "['mt', 'et']"
RECURSIVE ReprItems(_)
ReprItems(items) ==
    IF Len(items) = 0 THEN <<>>
    ELSE <<"'">> \o items[1] \o <<"'">>
         \o (IF Len(items) = 1 THEN <<>> ELSE <<",", " ">> \o ReprItems(Tail(items)))

Str(arg) == IF arg.list THEN <<"[">> \o ReprItems(arg.items) \o <<"]">> ELSE arg.items[1]

GetTemplate_EraBeforeAnalysis(channel, analysis, era, variable) ==
    <<Hash>> \o channel \o <<Hash, "$BIN", Hash, "$PROCESS", Hash>> \o era
        \o <<Hash>> \o analysis \o <<Hash>> \o variable
        \o <<Hash, "$MASS", Hash, "$SYSTEMATIC">>

\* DatacardBuilder._get_template, its arguments already formatted
GetTemplate(channel, analysis, era, variable) ==
    <<Hash>> \o channel \o <<Hash, "$BIN", Hash, "$PROCESS", Hash>> \o analysis
        \o <<Hash>> \o era \o <<Hash>> \o variable
        \o <<Hash, "$MASS", Hash, "$SYSTEMATIC">>

RECURSIVE Replace(_, _, _)
\* str.replace(tok, val), and the toolkit's substitution of a placeholder
Replace(s, tok, val) ==
    IF Len(s) = 0 THEN <<>>
    ELSE (IF s[1] = tok THEN val ELSE <<s[1]>>) \o Replace(Tail(s), tok, val)

\* the nominal pattern extract_shapes hands to ExtractShapes
NominalPattern(template) == Replace(template, "$SYSTEMATIC", <<>>)

\* the histogram name a pattern stands for, once the toolkit has substituted
\* the entry's bin, process and mass and the systematic's name
Substitute(pattern, bin, process, mass, systematic) ==
    Replace(Replace(Replace(Replace(pattern, "$BIN", bin), "$PROCESS", process),
                    "$MASS", mass), "$SYSTEMATIC", systematic)

\* the name looked up for a = <<channel, bin, process, analysis, era,
\* variable, mass, systematic>>: the nominal pattern when the systematic is
\* empty, the systematic pattern otherwise
FilledName(a) ==
    LET template == GetTemplate(a[1], a[4], a[5], a[6])
        pattern == IF a[8] = <<>> THEN NominalPattern(template) ELSE template
    IN  Substitute(pattern, a[2], a[3], a[7], a[8])

----------------------------------------------------------------------------
(* Generated names and template values: the value at position i is made of  *)
(* the i-th letter, so that values of different positions differ.           *)

Letters == <<"a", "b", "c", "d", "e", "f", "g", "h", "i">>

\* one field more than Shape reads
MaxFields == NumProps + 1

FieldVals(i) == {Repeat(Letters[i], k) : k \in 0..MaxFieldLen}

RECURSIVE FieldListsOfLen(_)
FieldListsOfLen(n) ==
    IF n = 0 THEN {<<>>}
    ELSE {Append(f, v) : f \in FieldListsOfLen(n - 1), v \in FieldVals(n)}

\* "".split('#') is [""]: every name is the join of at least one field
FieldLists == UNION {FieldListsOfLen(n) : n \in 1..MaxFields}

ArgTuples == FieldListsOfLen(NumProps)

----------------------------------------------------------------------------
(* The builder's state while only Shape or the template is exercised *)

NoCall == [op |-> "none", outcome |-> "none"]

BuilderIdle ==
    /\ fileExists = FALSE
    /\ fileKeys = <<>>
    /\ bState = "new"
    /\ shapes = <<>>
    /\ shapes_extracted = FALSE
    /\ obs = <<>>
    /\ procs = <<>>
    /\ systs = <<>>
    /\ groups = {}
    /\ last = NoCall
    /\ extractCompleted = FALSE

----------------------------------------------------------------------------
(* Shape: actions *)

\* extract_shapes' pattern names a histogram: the name is filled from tArgs
FillTemplate ==
    /\ sState = "args"
    /\ sName' = FilledName(tArgs)
    /\ sState' = "named"
    /\ UNCHANGED <<tArgs, sFields, sProps, sGot>>
    /\ UNCHANGED builderVars

\* Shape(name)
ShapeInit ==
    /\ sState = "named"
    /\ IF ShapeRaises(sName)
       THEN sState' = "raised" /\ sProps' = <<>>
       ELSE sState' = "built" /\ sProps' = ShapeProperties(sName)
    /\ UNCHANGED <<tArgs, sFields, sName, sGot>>
    /\ UNCHANGED builderVars

\* shape.get_property(pname), shape.channel, ..., shape.variation
GetProperty(pname) ==
    /\ sState = "built"
    /\ sGot' = PropertyOf(sProps, pname)
    /\ UNCHANGED <<tArgs, sFields, sName, sProps, sState>>
    /\ UNCHANGED builderVars

PropNameSet == {PropNames[i] : i \in 1..NumProps}

InitShape ==
    /\ tArgs = <<>>
    /\ sFields \in FieldLists
    /\ sName = Join(sFields)
    /\ sProps = <<>>
    /\ sState = "named"
    /\ sGot = NoResult
    /\ BuilderIdle

NextShape ==
    \/ ShapeInit
    \/ \E pname \in PropNameSet : GetProperty(pname)

SpecShape == InitShape /\ [][NextShape]_vars

InitTemplate ==
    /\ tArgs \in ArgTuples
    /\ sFields = <<>>
    /\ sName = <<>>
    /\ sProps = <<>>
    /\ sState = "args"
    /\ sGot = NoResult
    /\ BuilderIdle

NextTemplate ==
    \/ FillTemplate
    \/ ShapeInit
    \/ \E pname \in PropNameSet : GetProperty(pname)

SpecTemplate == InitTemplate /\ [][NextTemplate]_vars

----------------------------------------------------------------------------
(* Shape: properties *)

\* what Shape holds for a name joined from `fields`: the non-empty fields in
\* order, then "Nominal" when the name ends with '#'
FieldsRead(fields) ==
    LET p == SelectSeq(fields, NonEmpty)
    IN  IF Len(fields) >= 2 /\ fields[Len(fields)] = <<>>
        THEN Append(p, Nominal) ELSE p

\* C4 as stated, read for the names that have at least eight '#'-separated
\* fields: each accessor returns the field of the name at its index (1st:
\* channel, ..., 7th: mass), and variation is "Nominal" when the name ends
\* with '#' and the name's last field otherwise.
C4_FieldAtIndex ==
    (sState = "built" /\ sGot.prop # "none" /\ Len(sFields) >= NumProps) =>
        LET k == Legend(sGot.prop)
        IN  IF sGot.prop = "variation"
            THEN /\ ~sGot.raised
                 /\ sGot.val = IF sName[Len(sName)] = Hash THEN Nominal
                               ELSE sFields[Len(sFields)]
            ELSE k <= Len(sFields) => (~sGot.raised /\ sGot.val = sFields[k])

\* C4 amended: Shape raises only for the empty name, and for a non-empty name
\* each accessor returns the element at its index of the list made of the
\* name's NON-EMPTY '#'-separated fields in order, followed by "Nominal" when
\* the name ends with '#'; it raises when that list is too short.
C4_NonEmptyFieldAtIndex ==
    /\ sState = "raised" => sName = <<>>
    /\ (sState = "built" /\ sGot.prop # "none") =>
        LET k == Legend(sGot.prop)
            F == FieldsRead(sFields)
        IN  IF k <= Len(F) THEN ~sGot.raised /\ sGot.val = F[k]
            ELSE sGot.raised

\* a name of the template's form, "#b#c#d#e#f#g#h#": a leading '#', seven
\* non-empty fields, a trailing '#'; its variation was read as "Nominal"
C4_Witness ==
    /\ sState = "built"
    /\ Len(sFields) = NumProps + 1
    /\ sFields[1] = <<>>
    /\ \A i \in 2..NumProps : sFields[i] # <<>>
    /\ sFields[NumProps + 1] = <<>>
    /\ sGot = [prop |-> "variation", raised |-> FALSE, val |-> Nominal]

----------------------------------------------------------------------------
(* The builder's universe: the strings its callers pass *)

MT == <<"m", "t">>
ET == <<"e", "t">>
B1 == <<"b", "1">>
B2 == <<"b", "2">>
SIG == <<"S">>
BKG == <<"B">>
\* the process name the toolkit gives every observation
DataObs == <<"d", "a", "t", "a", "_", "o", "b", "s">>
HTT == <<"h", "t", "t">>
Era16 == <<"1", "6">>
Era17 == <<"1", "7">>
Var == <<"v">>
M125 == <<"1", "2", "5">>
SystName == <<"s">>
NormName == <<"n">>
BbbName == <<"_", "b", "i", "n", "_">>
Up == <<"U", "p">>
Down == <<"D", "o", "w", "n">>

\* an argument that is a plain value, or a Python list of values
Scalar(x) == [list |-> FALSE, items |-> <<x>>]
List(xs) == [list |-> TRUE, items |-> xs]

\* DatacardBuilder._convert_to_list
ConvertToList(x) ==
    IF ~x.list THEN [list |-> TRUE, items |-> <<x.items[1]>>] ELSE x

----------------------------------------------------------------------------
(* Bounds of the builder runs *)

\* the most entries (observations, processes and systematics together) a
\* run holds: a call that would add more is not taken
MaxEntries == 4
\* the most keys of an input file handed to the constructor
MaxKeys == 3

----------------------------------------------------------------------------
(* The input file *)

\* the key a histogram is stored under, by the naming convention
KeyName(channel, bin, process, systematic) ==
    FilledName(<<channel, bin, process, HTT, Era16, Var, M125, systematic>>)

\* the input file of the builder runs: channel mt, bin b1 only; the
\* systematic s has both variations for S and only "Up" for B
MainFile ==
    << KeyName(MT, B1, DataObs, <<>>), KeyName(MT, B1, SIG, <<>>),
       KeyName(MT, B1, BKG, <<>>), KeyName(MT, B1, SIG, SystName \o Up),
       KeyName(MT, B1, SIG, SystName \o Down),
       KeyName(MT, B1, BKG, SystName \o Up) >>

\* the key names the constructor runs draw their files from
KeyNameChoices ==
    { <<>>, KeyName(MT, B1, SIG, <<>>), KeyName(MT, B1, SIG, SystName \o Up),
      KeyName(MT, B1, SIG, SystName \o Down),
      KeyName(MT, B1, BKG, SystName \o Up) }

RECURSIVE KeyListsOfLen(_)
KeyListsOfLen(n) ==
    IF n = 0 THEN {<<>>}
    ELSE {Append(f, k) : f \in KeyListsOfLen(n - 1), k \in KeyNameChoices}

InputFiles == UNION {KeyListsOfLen(n) : n \in 0..MaxKeys}

\* the position of the first key called `name`, 0 when there is none
KeyIndex(keys, name) ==
    IF \E i \in 1..Len(keys) : keys[i] = name
    THEN CHOOSE i \in 1..Len(keys) :
            keys[i] = name /\ \A j \in 1..(i - 1) : keys[j] # name
    ELSE 0

\* the integral of the histogram stored under the k-th key
Integral(k) == 2 ^ (k - 1)

----------------------------------------------------------------------------
(* class DatacardBuilder: construction *)

RECURSIVE GetShapesFrom(_, _, _)
\* the loop of _get_shapes from the i-th key on: the Shapes built so far, or
\* the exception of the first Shape(name) that raises
GetShapesFrom(keys, i, acc) ==
    IF i > Len(keys) THEN [raised |-> FALSE, shapes |-> acc]
    ELSE IF ShapeRaises(keys[i]) THEN [raised |-> TRUE, shapes |-> <<>>]
    ELSE GetShapesFrom(keys, i + 1,
            Append(acc, [name |-> keys[i], properties |-> ShapeProperties(keys[i])]))

\* DatacardBuilder._get_shapes
GetShapes(keys) ==
    LET r == GetShapesFrom(keys, 1, <<>>)
    IN  IF r.raised THEN r
        ELSE IF Len(r.shapes) = 0 THEN [raised |-> TRUE, shapes |-> <<>>]
        ELSE r

\* the value of an attribute that was never assigned
Unset == "unset"

\* DatacardBuilder(input_filename)
Construct ==
    /\ bState = "new"
    /\ IF ~fileExists
       THEN /\ bState' = "failed"
            /\ shapes' = <<>>
       ELSE LET r == GetShapes(fileKeys)
            IN  /\ bState' = IF r.raised THEN "failed" ELSE "built"
                /\ shapes' = r.shapes
    /\ shapes_extracted' = IF bState' = "built" THEN FALSE ELSE Unset
    /\ last' = [op |-> "__init__",
                outcome |-> IF bState' = "built" THEN "ok" ELSE "raise"]
    /\ UNCHANGED <<fileExists, fileKeys, obs, procs, systs, groups, extractCompleted>>
    /\ UNCHANGED shapeVars

ShapeIdle ==
    /\ tArgs = <<>>
    /\ sFields = <<>>
    /\ sName = <<>>
    /\ sProps = <<>>
    /\ sState = "args"
    /\ sGot = NoResult

InitCtor ==
    /\ ShapeIdle
    /\ fileExists \in BOOLEAN
    /\ fileKeys \in (IF fileExists THEN InputFiles ELSE {<<>>})
    /\ bState = "new"
    /\ shapes = <<>>
    /\ shapes_extracted = Unset
    /\ obs = <<>>
    /\ procs = <<>>
    /\ systs = <<>>
    /\ groups = {}
    /\ last = NoCall
    /\ extractCompleted = FALSE

NextCtor == Construct

SpecCtor == InitCtor /\ [][NextCtor]_vars

----------------------------------------------------------------------------
(* Construction: properties *)

EndsWith(s, suffix) ==
    /\ Len(s) >= Len(suffix)
    /\ SubSeq(s, Len(s) - Len(suffix) + 1, Len(s)) = suffix

DropSuffix(s, suffix) == SubSeq(s, 1, Len(s) - Len(suffix))

\* shape b is shape a's partner: the same channel, category, process,
\* analysis, era, variable and mass, and a's systematic in direction `dir`
IsPartner(a, b, stem, dir) ==
    /\ Len(b.properties) >= NumProps
    /\ \A k \in 1..(NumProps - 1) : b.properties[k] = a.properties[k]
    /\ b.properties[NumProps] = stem \o dir

Unpaired(i) ==
    LET a == shapes[i]
        v == a.properties[NumProps]
    IN  /\ Len(a.properties) >= NumProps
        /\ \/ /\ EndsWith(v, Up)
              /\ ~\E j \in 1..Len(shapes) :
                    IsPartner(a, shapes[j], DropSuffix(v, Up), Down)
           \/ /\ EndsWith(v, Down)
              /\ ~\E j \in 1..Len(shapes) :
                    IsPartner(a, shapes[j], DropSuffix(v, Down), Up)

\* C2: a builder that was constructed holds no shape with an "Up" variation
\* whose "Down" partner is missing from the file, and none with a "Down"
\* variation whose "Up" partner is missing: such a file is reported as an error.
C2_UpDownPairsValidated ==
    bState = "built" => \A i \in 1..Len(shapes) : ~Unpaired(i)

\* C3: once the constructor has run, it has raised when the file does not
\* exist or has no keys, and otherwise the builder holds one Shape per key,
\* in key order, each with its key's name, and the flag is false.
C3_OneShapePerKey ==
    bState # "new" =>
        /\ ~fileExists => bState = "failed"
        /\ (fileExists /\ Len(fileKeys) = 0) => bState = "failed"
        /\ (fileExists /\ Len(fileKeys) > 0) =>
              /\ bState = "built"
              /\ Len(shapes) = Len(fileKeys)
              /\ \A i \in 1..Len(fileKeys) : shapes[i].name = fileKeys[i]
              /\ shapes_extracted = FALSE

----------------------------------------------------------------------------
(* The toolkit instance the builder owns (ch.CombineHarvester), as far as   *)
(* the builder's calls use it.  A histogram is modelled by its integral.    *)

Contains(list, x) == \E k \in 1..Len(list) : list[k] = x

\* the k-th (from 0) combination of one mass, analysis, era, channel and bin,
\* the bin varying fastest
Combination(k, mass, analysis, era, channel, bin) ==
    LET nb == Len(bin)
        nc == Len(channel)
        ne == Len(era)
        na == Len(analysis)
    IN  [mass |-> mass[(k \div (nb * nc * ne * na)) + 1],
         analysis |-> analysis[((k \div (nb * nc * ne)) % na) + 1],
         era |-> era[((k \div (nb * nc)) % ne) + 1],
         channel |-> channel[((k \div nb) % nc) + 1],
         bin |-> bin[(k % nb) + 1]]

NumCombinations(mass, analysis, era, channel, bin) ==
    Len(mass) * Len(analysis) * Len(era) * Len(channel) * Len(bin)

\* an entry as the toolkit creates it: no shape, rate 0
NewEntry(c, process, signal) ==
    [mass |-> c.mass, analysis |-> c.analysis, era |-> c.era,
     channel |-> c.channel, bin |-> c.bin, process |-> process,
     signal |-> signal, rate |-> 0, shaped |-> FALSE, content |-> 0]

\* cb.AddObservations(mass, analysis, era, channel, bin)
AddObservations(cbObs, mass, analysis, era, channel, bin) ==
    cbObs \o [k \in 1..NumCombinations(mass, analysis, era, channel, bin) |->
                NewEntry(Combination(k - 1, mass, analysis, era, channel, bin),
                         DataObs, FALSE)]

\* cb.AddProcesses(mass, analysis, era, channel, procs, bin, signal)
AddProcesses(cbProcs, mass, analysis, era, channel, process, bin, signal) ==
    cbProcs \o
    [k \in 1..(NumCombinations(mass, analysis, era, channel, bin) * Len(process)) |->
        NewEntry(Combination((k - 1) \div Len(process),
                             mass, analysis, era, channel, bin),
                 process[((k - 1) % Len(process)) + 1], signal)]

\* the process entries of cb.cp().channel(channel).process(process)
SelectChannelProcess(cbProcs, channel, process) ==
    {i \in 1..Len(cbProcs) :
        Contains(channel, cbProcs[i].channel) /\ Contains(process, cbProcs[i].process)}

RECURSIVE SystsFor(_, _, _, _, _, _, _)
\* one systematic per selected process entry from the i-th on, in order
SystsFor(cbProcs, sel, i, name, type, strength, shaped) ==
    IF i > Len(cbProcs) THEN <<>>
    ELSE (IF i \in sel
          THEN << [mass |-> cbProcs[i].mass, analysis |-> cbProcs[i].analysis,
                   era |-> cbProcs[i].era, channel |-> cbProcs[i].channel,
                   bin |-> cbProcs[i].bin, process |-> cbProcs[i].process,
                   name |-> name, type |-> type, strength |-> strength,
                   shaped |-> shaped] >>
          ELSE <<>>)
         \o SystsFor(cbProcs, sel, i + 1, name, type, strength, shaped)

\* selection.AddSyst(cb, name, type, ch.SystMap()(strength))
AddSyst(cbSysts, cbProcs, sel, name, type, strength) ==
    cbSysts \o SystsFor(cbProcs, sel, 1, name, type, strength, FALSE)

RECURSIVE LoadEntries(_, _, _, _, _)
\* ExtractShapes over observations or processes from the i-th on: an entry
\* that has a shape is skipped; a selected one gets the histogram its name
\* pattern stands for, and its rate; a histogram missing from the file raises
\* and leaves the entries loaded before it loaded
LoadEntries(entries, sel, i, keys, rule) ==
    IF i > Len(entries) THEN [entries |-> entries, raised |-> FALSE]
    ELSE IF i \notin sel \/ entries[i].shaped
    THEN LoadEntries(entries, sel, i + 1, keys, rule)
    ELSE LET k == KeyIndex(keys, Substitute(rule, entries[i].bin,
                                 entries[i].process, entries[i].mass, <<>>))
         IN  IF k = 0 THEN [entries |-> entries, raised |-> TRUE]
             ELSE LoadEntries([entries EXCEPT ![i].shaped = TRUE,
                                              ![i].content = Integral(k),
                                              ![i].rate = Integral(k)],
                              sel, i + 1, keys, rule)

RECURSIVE LoadSysts(_, _, _, _, _, _)
\* ExtractShapes over the systematics of type shape: both variations are
\* looked up under the systematic pattern.  Whether loading a systematic that
\* already has shapes raises is the toolkit version's choice (reloadRaises).
LoadSysts(cbSysts, sel, i, keys, syst_rule, reloadRaises) ==
    IF i > Len(cbSysts) THEN [entries |-> cbSysts, raised |-> FALSE]
    ELSE IF i \notin sel \/ cbSysts[i].type # "shape"
    THEN LoadSysts(cbSysts, sel, i + 1, keys, syst_rule, reloadRaises)
    ELSE IF cbSysts[i].shaped
    THEN (IF reloadRaises THEN [entries |-> cbSysts, raised |-> TRUE]
          ELSE LoadSysts(cbSysts, sel, i + 1, keys, syst_rule, reloadRaises))
    ELSE LET e == cbSysts[i]
             u == KeyIndex(keys, Substitute(syst_rule, e.bin, e.process,
                                            e.mass, e.name \o Up))
             d == KeyIndex(keys, Substitute(syst_rule, e.bin, e.process,
                                            e.mass, e.name \o Down))
         IN  IF u = 0 \/ d = 0 THEN [entries |-> cbSysts, raised |-> TRUE]
             ELSE LoadSysts([cbSysts EXCEPT ![i].shaped = TRUE],
                            sel, i + 1, keys, syst_rule, reloadRaises)

\* the last stage of ExtractShapes: the systematics, once observations and
\* processes are loaded
ExtractSystShapes(ro, rp, rs) ==
    [obs |-> ro.entries, procs |-> rp.entries, systs |-> rs.entries,
     raised |-> rs.raised]

\* the second stage of ExtractShapes: the processes, once the observations are
\* loaded
ExtractProcShapes(ro, rp, keys, cbSysts, selS, syst_rule, reloadRaises) ==
    IF rp.raised
    THEN [obs |-> ro.entries, procs |-> rp.entries, systs |-> cbSysts, raised |-> TRUE]
    ELSE ExtractSystShapes(ro, rp,
            LoadSysts(cbSysts, selS, 1, keys, syst_rule, reloadRaises))

\* the first stage of ExtractShapes: the observations
ExtractObsShapes(ro, keys, cbProcs, cbSysts, selP, selS, rule, syst_rule, reloadRaises) ==
    IF ro.raised
    THEN [obs |-> ro.entries, procs |-> cbProcs, systs |-> cbSysts, raised |-> TRUE]
    ELSE ExtractProcShapes(ro, LoadEntries(cbProcs, selP, 1, keys, rule),
                           keys, cbSysts, selS, syst_rule, reloadRaises)

\* selection.ExtractShapes(input_filename, rule, syst_rule): observations,
\* then processes, then systematics; selO, selP and selS are the indices of
\* the selection's entries
ExtractShapes(keys, cbObs, cbProcs, cbSysts, selO, selP, selS, rule, syst_rule, reloadRaises) ==
    ExtractObsShapes(LoadEntries(cbObs, selO, 1, keys, rule), keys, cbProcs,
                     cbSysts, selP, selS, rule, syst_rule, reloadRaises)

RECURSIVE SumOver(_, _, _)
\* the sum of a field over the entries whose indices are in S
SumOver(entries, S, field) ==
    IF S = {} THEN 0
    ELSE LET i == CHOOSE j \in S : TRUE
         IN  entries[i][field] + SumOver(entries, S \ {i}, field)

\* selection.GetRate() and selection.GetShape() over process entries
GetRate(cbProcs, S) == SumOver(cbProcs, S, "rate")
GetShape(cbProcs, S) == SumOver(cbProcs, S, "content")

----------------------------------------------------------------------------
(* class DatacardBuilder: the arguments the runs call it with *)

\* bin=None of extract_shapes
NoBin == [list |-> FALSE, items |-> <<>>]

\* mass, analysis, era, channel and category of add_observation, add_signals
\* and add_backgrounds: all plain, or lists of one or two values
PlainArgs ==
    [mass |-> Scalar(M125), analysis |-> Scalar(HTT), era |-> Scalar(Era16),
     channel |-> Scalar(MT), category |-> Scalar(B1)]

ChannelListArgs ==
    [mass |-> List(<<M125>>), analysis |-> List(<<HTT>>), era |-> List(<<Era16>>),
     channel |-> List(<<MT, ET>>), category |-> List(<<B1>>)]

EraListArgs == [PlainArgs EXCEPT !.era = List(<<Era16, Era17>>)]

BinListArgs == [PlainArgs EXCEPT !.category = List(<<B1, B2>>)]

OtherBinArgs == [PlainArgs EXCEPT !.category = Scalar(B2)]

----------------------------------------------------------------------------
(* class DatacardBuilder: operations *)

NoTouch == [obs |-> {}, procs |-> {}]

\* `args`: what an add_* call hands to the toolkit; `touched`: the entries
\* the call selects (systematics, extraction), works on (bin-by-bin) or reads
\* and rewrites (Asimov)
Call(op, outcome, args, touched) ==
    [op |-> op, outcome |-> outcome, args |-> args, touched |-> touched]

\* add_observation(mass, analysis, era, channel, category)
add_observation(a) ==
    LET mass == ConvertToList(a.mass)
        analysis == ConvertToList(a.analysis)
        era == ConvertToList(a.era)
        channel == ConvertToList(a.channel)
        category == ConvertToList(a.category)
    IN  /\ bState = "built"
        /\ obs' = AddObservations(obs, mass.items, analysis.items, era.items,
                                  channel.items, category.items)
        /\ last' = Call("add_observation", "ok",
                        [mass |-> mass, analysis |-> analysis, era |-> era,
                         channel |-> channel, category |-> category], NoTouch)
        /\ UNCHANGED <<fileExists, fileKeys, bState, shapes, shapes_extracted,
                       procs, systs, groups, extractCompleted>>
        /\ UNCHANGED shapeVars

\* add_processes(mass, analysis, era, channel, process, category, flag),
\* called as `op`
add_processes(op, a, process, flag) ==
    LET mass == ConvertToList(a.mass)
        analysis == ConvertToList(a.analysis)
        era == ConvertToList(a.era)
        channel == ConvertToList(a.channel)
        category == ConvertToList(a.category)
    IN  /\ bState = "built"
        /\ procs' = AddProcesses(procs, mass.items, analysis.items, era.items,
                                 channel.items, process, category.items, flag)
        /\ last' = Call(op, "ok",
                        [mass |-> mass, analysis |-> analysis, era |-> era,
                         channel |-> channel, process |-> process,
                         category |-> category, flag |-> flag], NoTouch)
        /\ UNCHANGED <<fileExists, fileKeys, bState, shapes, shapes_extracted,
                       obs, systs, groups, extractCompleted>>
        /\ UNCHANGED shapeVars

\* add_signals(mass, analysis, era, channel, process, category)
add_signals(a, process) == add_processes("add_signals", a, process, TRUE)

add_backgrounds_AsSignal(a, process) ==
    add_processes("add_backgrounds", a, process, TRUE)

\* add_backgrounds(mass, analysis, era, channel, process, category)
add_backgrounds(a, process) == add_processes("add_backgrounds", a, process, FALSE)

\* the body shared by add_shape_systematic and add_normalization_systematic
add_systematic(op, name, type, strength, channel, process) ==
    LET chans == ConvertToList(channel)
        prcs == ConvertToList(process)
        sel == SelectChannelProcess(procs, chans.items, prcs.items)
    IN  /\ bState = "built"
        /\ systs' = AddSyst(systs, procs, sel, name, type, strength)
        /\ last' = Call(op, "ok", <<>>, [obs |-> {}, procs |-> sel])
        /\ UNCHANGED <<fileExists, fileKeys, bState, shapes, shapes_extracted,
                       obs, procs, groups, extractCompleted>>
        /\ UNCHANGED shapeVars

\* add_shape_systematic(name, strength, channel, process)
add_shape_systematic(name, strength, channel, process) ==
    add_systematic("add_shape_systematic", name, "shape", strength, channel, process)

add_normalization_systematic_AsShape(name, strength, channel, process) ==
    add_systematic("add_normalization_systematic", name, "shape", strength,
                   channel, process)

\* add_normalization_systematic(name, strength, channel, process)
add_normalization_systematic(name, strength, channel, process) ==
    add_systematic("add_normalization_systematic", name, "lnN", strength,
                   channel, process)

FlagAfterExtract_SetFirst(flag, raised) == TRUE

\* _shapes_extracted after extract_shapes: the assignment follows the
\* ExtractShapes call and is not reached when that call raises
FlagAfterExtract(flag, raised) == IF raised THEN flag ELSE TRUE

\* extract_shapes(channel, analysis, era, variable, bin=None); the template is
\* formatted from the channel argument as given, before it is made a list
extract_shapes(channel, analysis, era, variable, bin, reloadRaises) ==
    LET template == GetTemplate(Str(channel), analysis, era, variable)
        chans == ConvertToList(channel)
        bins == IF bin # NoBin THEN ConvertToList(bin) ELSE NoBin
        selO == {i \in 1..Len(obs) :
                    /\ Contains(chans.items, obs[i].channel)
                    /\ (bin # NoBin => Contains(bins.items, obs[i].bin))}
        selP == {i \in 1..Len(procs) :
                    /\ Contains(chans.items, procs[i].channel)
                    /\ (bin # NoBin => Contains(bins.items, procs[i].bin))}
        selS == {i \in 1..Len(systs) :
                    /\ Contains(chans.items, systs[i].channel)
                    /\ (bin # NoBin => Contains(bins.items, systs[i].bin))}
    IN  \E r \in {ExtractShapes(fileKeys, obs, procs, systs, selO, selP, selS,
                           NominalPattern(template), template, reloadRaises)} :
        /\ bState = "built"
        /\ obs' = r.obs
        /\ procs' = r.procs
        /\ systs' = r.systs
        /\ shapes_extracted' = FlagAfterExtract(shapes_extracted, r.raised)
        /\ extractCompleted' = (extractCompleted \/ ~r.raised)
        /\ last' = Call("extract_shapes", IF r.raised THEN "raise" ELSE "ok",
                        <<>>, [obs |-> selO, procs |-> selP])
        /\ UNCHANGED <<fileExists, fileKeys, bState, shapes, groups>>
        /\ UNCHANGED shapeVars

GuardRejects_Never(flag) == FALSE

\* the guard of add_bin_by_bin_systematics and of
\* replace_observation_by_asimov_dataset: `if not self._shapes_extracted`
GuardRejects(flag) == ~flag

\* a call the guard rejects: the exception leaves the builder as it was
Rejected(op) ==
    /\ last' = Call(op, "guard", <<>>, NoTouch)
    /\ UNCHANGED <<fileExists, fileKeys, bState, shapes, shapes_extracted,
                   obs, procs, systs, groups, extractCompleted>>
    /\ UNCHANGED shapeVars

\* add_bin_by_bin_systematics(processes, add_threshold, merge_threshold,
\* fix_norm): the factory works on cb.cp().process(processes), skips the
\* entries without a shape and gives each other one its bin-wise systematics
\* (here one entry, already holding its shapes); then the two groups are set
add_bin_by_bin_systematics(processes) ==
    /\ bState = "built"
    /\ IF GuardRejects(shapes_extracted)
       THEN Rejected("add_bin_by_bin_systematics")
       ELSE LET sel == {i \in 1..Len(procs) : Contains(processes, procs[i].process)}
                withShape == {i \in sel : procs[i].shaped}
            IN  /\ systs' = systs \o SystsFor(procs, withShape, 1, BbbName,
                                              "shape", 1, TRUE)
                /\ groups' = groups \cup {"bbb", "syst_plus_bbb"}
                /\ last' = Call("add_bin_by_bin_systematics", "ok", <<>>,
                                [obs |-> {}, procs |-> withShape])
                /\ UNCHANGED <<fileExists, fileKeys, bState, shapes,
                               shapes_extracted, obs, procs, extractCompleted>>
                /\ UNCHANGED shapeVars

\* the process entries _replace_observation_by_asimov_dataset reads for an
\* observation: cb.cp().analysis(..).era(..).channel(..).bin(..)
AsimovCell(cbProcs, o) ==
    {i \in 1..Len(cbProcs) :
        /\ cbProcs[i].analysis = o.analysis
        /\ cbProcs[i].era = o.era
        /\ cbProcs[i].channel = o.channel
        /\ cbProcs[i].bin = o.bin}

AsimovObservation_BackgroundRate(cbProcs, o) ==
    LET cell == AsimovCell(cbProcs, o)
        background == {i \in cell : ~cbProcs[i].signal}
        signal == {i \in cell : cbProcs[i].signal}
    IN  [o EXCEPT !.shaped = TRUE,
                  !.content = GetShape(cbProcs, background) + GetShape(cbProcs, signal),
                  !.rate = GetRate(cbProcs, background)]

\* _replace_observation_by_asimov_dataset(observation): set_shape(.., True)
\* sets the shape and its integral as the rate, set_rate then sets the rate
AsimovObservation(cbProcs, o) ==
    LET cell == AsimovCell(cbProcs, o)
        background == {i \in cell : ~cbProcs[i].signal}
        signal == {i \in cell : cbProcs[i].signal}
    IN  [o EXCEPT !.shaped = TRUE,
                  !.content = GetShape(cbProcs, background) + GetShape(cbProcs, signal),
                  !.rate = GetRate(cbProcs, background) + GetRate(cbProcs, signal)]

\* replace_observation_by_asimov_dataset(category)
replace_observation_by_asimov_dataset(category) ==
    /\ bState = "built"
    /\ IF GuardRejects(shapes_extracted)
       THEN Rejected("replace_observation_by_asimov_dataset")
       ELSE LET cats == ConvertToList(category)
                selO == {i \in 1..Len(obs) : Contains(cats.items, obs[i].bin)}
            IN  /\ obs' = [i \in 1..Len(obs) |->
                            IF i \in selO THEN AsimovObservation(procs, obs[i])
                            ELSE obs[i]]
                /\ last' = Call("replace_observation_by_asimov_dataset", "ok",
                                <<>>,
                                [obs |-> selO,
                                 procs |-> UNION {AsimovCell(procs, obs[i]) : i \in selO}])
                /\ UNCHANGED <<fileExists, fileKeys, bState, shapes,
                               shapes_extracted, procs, systs, groups,
                               extractCompleted>>
                /\ UNCHANGED shapeVars

\* print_datacard(), auto_rebin(threshold, mode), write(output_datacard,
\* output_shapes) and summary(): none of them touches the entries' rates or
\* integrals, the systematics, the groups or the flag
OtherOps == {"print_datacard", "auto_rebin", "write", "summary"}

OtherOperation(op) ==
    /\ bState = "built"
    /\ last' = Call("other", "ok", <<>>, NoTouch)
    /\ UNCHANGED <<fileExists, fileKeys, bState, shapes, shapes_extracted,
                   obs, procs, systs, groups, extractCompleted>>
    /\ UNCHANGED shapeVars

----------------------------------------------------------------------------
(* The builder runs: construction from the input file, then any calls *)

Init ==
    /\ ShapeIdle
    /\ fileExists = TRUE
    /\ fileKeys = MainFile
    /\ bState = "new"
    /\ shapes = <<>>
    /\ shapes_extracted = Unset
    /\ obs = <<>>
    /\ procs = <<>>
    /\ systs = <<>>
    /\ groups = {}
    /\ last = NoCall
    /\ extractCompleted = FALSE

\* the size limits of a run
Bounded == Len(procs') + Len(obs') + Len(systs') <= MaxEntries

\* a systematic with shapes is among the entries: only then the toolkit
\* version's choice on reloading matters
ReloadChoices ==
    IF \E i \in 1..Len(systs) : systs[i].shaped THEN BOOLEAN ELSE {FALSE}

\* every operation, in any order
Next ==
    \/ Construct
    \/ add_observation(PlainArgs) /\ Bounded
    \/ \E a \in {PlainArgs, ChannelListArgs} : add_signals(a, <<SIG>>) /\ Bounded
    \/ add_backgrounds(PlainArgs, <<BKG>>) /\ Bounded
    \/ \E process \in {Scalar(SIG), List(<<SIG, BKG>>)} :
          add_shape_systematic(SystName, 1, Scalar(MT), process) /\ Bounded
    \/ add_normalization_systematic(NormName, 1, Scalar(MT), Scalar(SIG)) /\ Bounded
    \/ \E channel \in {Scalar(MT), List(<<MT, ET>>)}, bin \in {NoBin, List(<<B2>>)},
          reloadRaises \in ReloadChoices :
          extract_shapes(channel, HTT, Era16, Var, bin, reloadRaises)
    \/ add_bin_by_bin_systematics(<<SIG>>) /\ Bounded
    \/ replace_observation_by_asimov_dataset(Scalar(B1))
    \/ \E op \in OtherOps : OtherOperation(op)

Spec == Init /\ [][Next]_vars

EntryArgs == { PlainArgs, ChannelListArgs, EraListArgs, BinListArgs }
ProcessLists == { <<SIG>>, <<BKG>>, <<SIG, BKG>> }

\* the calls that add entries
NextEntries ==
    \/ Construct
    \/ \E a \in {PlainArgs, ChannelListArgs, BinListArgs} : add_observation(a) /\ Bounded
    \/ \E a \in EntryArgs, process \in ProcessLists : add_signals(a, process) /\ Bounded
    \/ \E a \in EntryArgs, process \in ProcessLists : add_backgrounds(a, process) /\ Bounded

SpecEntries == Init /\ [][NextEntries]_vars

SystChannels == { Scalar(MT), Scalar(ET), List(<<MT, ET>>) }
SystProcesses == { Scalar(SIG), Scalar(BKG), List(<<SIG, BKG>>) }

\* processes, systematics and the extraction of their shapes
NextSysts ==
    \/ Construct
    \/ add_observation(PlainArgs) /\ Bounded
    \/ \E a \in {PlainArgs, ChannelListArgs}, process \in {<<SIG>>, <<SIG, BKG>>} :
          add_signals(a, process) /\ Bounded
    \/ \E a \in {PlainArgs, ChannelListArgs} : add_backgrounds(a, <<BKG>>) /\ Bounded
    \/ \E channel \in SystChannels, process \in SystProcesses :
          add_shape_systematic(SystName, 1, channel, process) /\ Bounded
    \/ \E channel \in SystChannels, process \in SystProcesses :
          add_normalization_systematic(NormName, 1, channel, process) /\ Bounded
    \/ \E reloadRaises \in ReloadChoices :
          extract_shapes(Scalar(MT), HTT, Era16, Var, NoBin, reloadRaises)

SpecSysts == Init /\ [][NextSysts]_vars

AsimovCategories == { Scalar(B1), Scalar(B2), List(<<B1, B2>>) }

\* observations, processes, their extraction and the Asimov replacement
NextAsimov ==
    \/ Construct
    \/ \E a \in {PlainArgs, OtherBinArgs, BinListArgs} : add_observation(a) /\ Bounded
    \/ \E a \in {PlainArgs, ChannelListArgs, EraListArgs, OtherBinArgs} :
          add_signals(a, <<SIG>>) /\ Bounded
    \/ \E a \in {PlainArgs, ChannelListArgs, EraListArgs, OtherBinArgs} :
          add_backgrounds(a, <<BKG>>) /\ Bounded
    \/ \E channel \in {Scalar(MT), Scalar(ET)} :
          extract_shapes(channel, HTT, Era16, Var, NoBin, FALSE)
    \/ \E category \in AsimovCategories :
          replace_observation_by_asimov_dataset(category)

SpecAsimov == Init /\ [][NextAsimov]_vars

----------------------------------------------------------------------------
(* The builder: properties *)

GuardedOps == {"add_bin_by_bin_systematics", "replace_observation_by_asimov_dataset"}

\* C1: a call of add_bin_by_bin_systematics or of
\* replace_observation_by_asimov_dataset is rejected by the guard exactly when
\* no extract_shapes call has returned before it.
C1_GuardFollowsExtraction ==
    last.op \in GuardedOps => (last.outcome = "guard" <=> ~extractCompleted)

\* the guard let a bin-by-bin call through after an extraction
C1_Witness ==
    /\ last.op = "add_bin_by_bin_systematics"
    /\ last.outcome = "ok"
    /\ extractCompleted
    /\ last.touched.procs # {}

\* C8: every process entry that add_bin_by_bin_systematics works on or that
\* replace_observation_by_asimov_dataset reads has had its shape extracted.
C8_ActsOnExtractedOnly ==
    (last.op \in GuardedOps /\ last.outcome = "ok") =>
        \A i \in last.touched.procs : procs[i].shaped

\* C9: the flag is false after construction; it changes only from false to
\* true, in an extract_shapes call that returns; an extract_shapes call that
\* raises leaves it; a call the guard rejects leaves entries, systematics,
\* groups, rates and the flag as they were.
C9_FlagDiscipline ==
    [][ /\ (last'.op = "__init__" /\ last'.outcome = "ok") => shapes_extracted' = FALSE
        /\ (last'.op # "__init__" /\ shapes_extracted' # shapes_extracted) =>
              /\ shapes_extracted = FALSE
              /\ shapes_extracted' = TRUE
              /\ last'.op = "extract_shapes"
              /\ last'.outcome = "ok"
        /\ (last'.op = "extract_shapes" /\ last'.outcome = "raise") =>
              shapes_extracted' = shapes_extracted
        /\ last'.outcome = "guard" =>
              UNCHANGED <<obs, procs, systs, groups, shapes_extracted>> ]_vars

\* an extract_shapes call raised on a process entry, the flag still false
C9_Witness ==
    /\ last.op = "extract_shapes"
    /\ last.outcome = "raise"
    /\ last.touched.procs # {}
    /\ shapes_extracted = FALSE

Wrapped(x) == [list |-> TRUE, items |-> x.items]

\* C6: add_signals marks the entries it adds as signal and add_backgrounds as
\* background; both hand mass, analysis, era, channel and category to
\* add_processes' toolkit call as lists of the given values and the process
\* list as given; the entries that were there keep their marks.
C6_SignalBackgroundMarks ==
    [][ \A a \in EntryArgs, process \in ProcessLists :
          (add_signals(a, process) \/ add_backgrounds(a, process)) =>
            LET flag == (last'.op = "add_signals")
            IN  /\ Len(procs') >= Len(procs)
                /\ SubSeq(procs', 1, Len(procs)) = procs
                /\ Len(procs') - Len(procs) =
                      Len(a.mass.items) * Len(a.analysis.items) * Len(a.era.items)
                        * Len(a.channel.items) * Len(a.category.items) * Len(process)
                /\ \A i \in (Len(procs) + 1)..Len(procs') : procs'[i].signal = flag
                /\ last'.args = [mass |-> Wrapped(a.mass), analysis |-> Wrapped(a.analysis),
                                 era |-> Wrapped(a.era), channel |-> Wrapped(a.channel),
                                 process |-> process, category |-> Wrapped(a.category),
                                 flag |-> flag] ]_vars

\* add_backgrounds, called with a plain channel, added a background entry
\* behind a signal entry
C6_Witness ==
    /\ last.op = "add_backgrounds"
    /\ last.args.channel = List(<<MT>>)
    /\ Len(procs) >= 2
    /\ procs[1].signal
    /\ ~procs[Len(procs)].signal

AttachedTo(sy, pr) ==
    /\ sy.mass = pr.mass /\ sy.analysis = pr.analysis /\ sy.era = pr.era
    /\ sy.channel = pr.channel /\ sy.bin = pr.bin /\ sy.process = pr.process

\* what a step that adds a systematic of `type` must have done
SystematicAdded(type, name, strength, channel, process) ==
    LET Sel == {i \in 1..Len(procs) :
                    /\ Contains(channel.items, procs[i].channel)
                    /\ Contains(process.items, procs[i].process)}
        New == (Len(systs) + 1)..Len(systs')
    IN  /\ Len(systs') >= Len(systs)
        /\ SubSeq(systs', 1, Len(systs)) = systs
        /\ Cardinality(New) = Cardinality(Sel)
        /\ \A i \in Sel : \E j \in New : AttachedTo(systs'[j], procs[i])
        /\ \A j \in New :
              /\ systs'[j].type = type
              /\ systs'[j].name = name
              /\ systs'[j].strength = strength
              /\ \E i \in Sel : AttachedTo(systs'[j], procs[i])
        /\ UNCHANGED <<procs, obs, shapes_extracted>>

\* C7: add_shape_systematic adds one systematic of type "shape", and
\* add_normalization_systematic one of type "lnN", with the given name and
\* strength for exactly the process entries whose channel and process are
\* among the given ones; the other systematics, the process entries, the
\* observations and the flag stay as they were.
C7_SystematicOnSelection ==
    [][ \A channel \in SystChannels, process \in SystProcesses :
          /\ add_shape_systematic(SystName, 1, channel, process) =>
                SystematicAdded("shape", SystName, 1, channel, process)
          /\ add_normalization_systematic(NormName, 1, channel, process) =>
                SystematicAdded("lnN", NormName, 1, channel, process) ]_vars

\* a normalization systematic was attached to some process entries and not to
\* others
C7_Witness ==
    /\ last.op = "add_normalization_systematic"
    /\ last.touched.procs # {}
    /\ Cardinality(last.touched.procs) < Len(procs)
    /\ Len(systs) >= 1
    /\ systs[Len(systs)].type = "lnN"

SharesCell(pr, o) ==
    /\ pr.analysis = o.analysis /\ pr.era = o.era
    /\ pr.channel = o.channel /\ pr.bin = o.bin

RECURSIVE CellTotalFrom(_, _, _, _, _)
\* the sum of `field` over the entries from the i-th on that share the
\* observation's cell and are signal (sig) or background (~sig)
CellTotalFrom(entries, i, o, sig, field) ==
    IF i > Len(entries) THEN 0
    ELSE (IF SharesCell(entries[i], o) /\ entries[i].signal = sig
          THEN entries[i][field] ELSE 0)
         + CellTotalFrom(entries, i + 1, o, sig, field)

\* C10: a replace_observation_by_asimov_dataset call that the guard lets
\* through gives every observation whose bin is among the given categories
\* the rate, and the shape, that is the sum over the background entries plus
\* the sum over the signal entries of its analysis, era, channel and bin;
\* the other observations and all process entries stay as they were.
C10_AsimovIsCellSum ==
    [][ \A category \in AsimovCategories :
          (replace_observation_by_asimov_dataset(category) /\ last'.outcome = "ok") =>
            /\ procs' = procs
            /\ Len(obs') = Len(obs)
            /\ \A i \in 1..Len(obs) :
                  IF Contains(category.items, obs[i].bin)
                  THEN /\ obs'[i].rate = CellTotalFrom(procs, 1, obs[i], FALSE, "rate")
                                         + CellTotalFrom(procs, 1, obs[i], TRUE, "rate")
                       /\ obs'[i].content =
                              CellTotalFrom(procs, 1, obs[i], FALSE, "content")
                              + CellTotalFrom(procs, 1, obs[i], TRUE, "content")
                       /\ obs'[i].shaped
                       /\ SharesCell(obs'[i], obs[i])
                  ELSE obs'[i] = obs[i] ]_vars

\* an observation got the sum of an extracted signal and an extracted
\* background of its cell
C10_Witness ==
    /\ last.op = "replace_observation_by_asimov_dataset"
    /\ last.outcome = "ok"
    /\ \E i \in last.touched.obs :
          /\ obs[i].rate = Integral(2) + Integral(3)
          /\ \E j, k \in last.touched.procs : procs[j].signal /\ ~procs[k].signal

====
